---- MODULE Spec2Model ----
(***************************************************************************)
(* Backlog of the QIBFT consensus core (consensus/qibft/core/backlog.go):  *)
(* checkMessage classifies a message against the current view and state,   *)
(* storeBacklog / storeQBFTBacklog defer a future message in the sender's  *)
(* priority queue, processBacklog replays the queues.                      *)
(***************************************************************************)
EXTENDS Integers, Sequences, FiniteSets, Bags, TLC

(* ------------------------------ bounds -------------------------------- *)
\* greatest sequence number the engine reaches and a message carries
MaxSeq == 2
\* greatest round the engine reaches
MaxRound == 1
\* greatest number of entries held in the backlog store at one time
MaxBacklog == 2

(* --------------------------- program constants ------------------------ *)
\* message codes; checkMessage compares them with < and >
msgPreprepare == 0
msgPrepare == 1
msgCommit == 2
msgRoundChange == 3

\* toPriority: weight of the sequence and of the round in the priority key
SeqWeight == 1000
RoundWeight == 10
\* first round that no longer fits between two sequence weights ("0 to 99")
RoundLimit == SeqWeight \div RoundWeight

Codes == {msgPreprepare, msgPrepare, msgCommit, msgRoundChange}

StateAcceptRequest == "StateAcceptRequest"
StatePreprepared == "StatePreprepared"
StatePrepared == "StatePrepared"
StateCommitted == "StateCommitted"
States == {StateAcceptRequest, StatePreprepared, StatePrepared, StateCommitted}

\* results of checkMessage
nil == "nil"
errFutureMessage == "errFutureMessage"
errOldMessage == "errOldMessage"
errInvalidMessage == "errInvalidMessage"

(* ------------------------------ addresses ----------------------------- *)
Self == "self"
Remote == {"A", "B"}
Addrs == Remote \cup {Self}
NoAddr == "none"

(* -------------------------------- views ------------------------------- *)
\* a missing (nil) Sequence or Round
Missing == 0 - 1
View(s, r) == [seq |-> s, round |-> r]
\* the zero View{} a failed decode leaves behind, and a nil *View
NilView == View(Missing, Missing)

Seqs == 1..MaxSeq
\* rounds the engine goes through
Rounds == 0..MaxRound
\* rounds a message may claim: the engine's, and one past the priority range
MsgRounds == Rounds \cup {RoundLimit}
MsgViews == {View(s, r) : s \in Seqs, r \in MsgRounds}
\* every view a caller may hand to checkMessage, malformed ones included
AnyViews == {View(s, r) : s \in Seqs \cup {Missing}, r \in MsgRounds \cup {Missing}}

\* View.Cmp: sequence first, then round; -1, 0 or 1
Cmp(v, w) ==
    IF v.seq < w.seq THEN 0 - 1
    ELSE IF v.seq > w.seq THEN 1
    ELSE IF v.round < w.round THEN 0 - 1
    ELSE IF v.round > w.round THEN 1
    ELSE 0

VARIABLES
    curView,    \* c.currentView()
    state,      \* c.state
    valSet,     \* c.valSet: addresses of the validators
    backlogs,   \* c.backlogs: address -> priority queue (a bag of entries)
    mu,         \* c.backlogsMu: "free", or its holder
    pc,         \* processBacklog: "idle", "range" (line 161), "loop" (177), "act" (221)
    todo,       \* keys the range loop has still to visit
    cur,        \* srcAddress of the range loop
    isFuture,   \* local isFuture
    m,          \* the entry popped at line 178
    err,        \* result of checkMessage at line 220
    storeAt,    \* how the last store call returned: "self" (97/120), "end" (113/155),
                \* "nopush" (155, after a Decode that failed)
    peers,      \* the remote nodes whose messages reach this node
    track,      \* whether the history of posted events is kept
    hiRC,       \* per sender: greatest view of a round change posted in an earlier pass
    hiOther,    \* per sender: greatest view of another message posted in an earlier pass
    passRC,     \* greatest view of a round change posted to cur in this pass
    passOther,  \* greatest view of another message posted to cur in this pass
    q0,         \* the queue of cur as the range loop found it
    pops        \* number of Pop calls on the queue of cur in this pass

engineVars == <<curView, state, valSet, peers>>
drainVars == <<mu, pc, todo, cur, isFuture, m, err>>
postedVars == <<track, hiRC, hiOther, passRC, passOther>>
histVars == <<track, hiRC, hiOther, passRC, passOther, q0, pops>>
vars == <<curView, state, valSet, backlogs, mu, pc, todo, cur, isFuture, m, err,
          storeAt, peers, track, hiRC, hiOther, passRC, passOther, q0, pops>>

(* ------------------------------ checkMessage -------------------------- *)
\* the round-change branch that calls a later round of this sequence future too
checkRoundChange_byView(view) ==
    IF Cmp(view, curView) > 0 THEN errFutureMessage
    ELSE IF Cmp(view, curView) < 0 THEN errOldMessage
    ELSE nil

\* lines 43-50: a round change is future by its sequence alone
checkRoundChange(view) ==
    IF view.seq > curView.seq THEN errFutureMessage
    ELSE IF Cmp(view, curView) < 0 THEN errOldMessage
    ELSE nil

\* the switch with >= for > in StateAcceptRequest
checkState_offByOne(msgCode) ==
    IF state = StateAcceptRequest THEN
        IF msgCode >= msgPreprepare THEN errFutureMessage ELSE nil
    ELSE IF state = StatePreprepared THEN
        IF msgCode < msgPrepare THEN errInvalidMessage
        ELSE IF msgCode > msgPrepare THEN errFutureMessage
        ELSE nil
    ELSE IF state = StatePrepared THEN
        IF msgCode < msgCommit THEN errInvalidMessage ELSE nil
    ELSE IF state = StateCommitted THEN errInvalidMessage
    ELSE nil

\* lines 60-88: a message of the current view against c.state
checkState(msgCode) ==
    IF state = StateAcceptRequest THEN
        IF msgCode > msgPreprepare THEN errFutureMessage ELSE nil
    ELSE IF state = StatePreprepared THEN
        IF msgCode < msgPrepare THEN errInvalidMessage
        ELSE IF msgCode > msgPrepare THEN errFutureMessage
        ELSE nil
    ELSE IF state = StatePrepared THEN
        IF msgCode < msgCommit THEN errInvalidMessage ELSE nil
    ELSE IF state = StateCommitted THEN errInvalidMessage
    ELSE nil

\* checkMessage without the test for an old view (lines 56-58)
checkMessage_noOld(msgCode, view) ==
    IF view.seq = Missing \/ view.round = Missing THEN errInvalidMessage
    ELSE IF msgCode = msgRoundChange THEN checkRoundChange(view)
    ELSE IF Cmp(view, curView) > 0 THEN errFutureMessage
    ELSE checkState(msgCode)

\* lines 38-89
checkMessage(msgCode, view) ==
    IF view.seq = Missing \/ view.round = Missing THEN errInvalidMessage
    ELSE IF msgCode = msgRoundChange THEN checkRoundChange(view)
    ELSE IF Cmp(view, curView) > 0 THEN errFutureMessage
    ELSE IF Cmp(view, curView) < 0 THEN errOldMessage
    ELSE checkState(msgCode)

(* ------------------------------- toPriority --------------------------- *)
\* msgPriority[msgCode]; a code that is no key of the map reads as 0
msgPriority(msgCode) ==
    IF msgCode = msgPreprepare THEN 1
    ELSE IF msgCode = msgCommit THEN 2
    ELSE IF msgCode = msgPrepare THEN 3
    ELSE 0

\* distance between neighbouring float32 values at n >= 0 (24-bit significand)
RECURSIVE Ulp(_)
Ulp(n) == IF n < 2^24 THEN 1 ELSE 2 * Ulp(n \div 2)

\* float32(n) for an unsigned n: round to nearest, ties to even
float32(n) ==
    LET u == Ulp(n)
        q == n \div u
        r == n % u
    IN  IF 2 * r < u THEN q * u
        ELSE IF 2 * r > u THEN (q + 1) * u
        ELSE IF q % 2 = 0 THEN q * u
        ELSE (q + 1) * u

\* toPriority that forgets the minus sign: later views come out first
toPriority_positive(msgCode, view) ==
    IF msgCode = msgRoundChange
    THEN float32(view.seq * SeqWeight)
    ELSE float32(view.seq * SeqWeight + view.round * RoundWeight + msgPriority(msgCode))

toPriority(msgCode, view) ==
    IF msgCode = msgRoundChange
    THEN 0 - float32(view.seq * SeqWeight)
    ELSE 0 - float32(view.seq * SeqWeight + view.round * RoundWeight + msgPriority(msgCode))

(* ------------------------------ the queues ---------------------------- *)
\* a queued message: its code, the view it decodes to, the priority it was pushed with
Entry(code, view, prio) == [code |-> code, view |-> view, prio |-> prio]
NoMsg == Entry(Missing, NilView, 0)

\* prque.Push
Push(q, e) == q (+) SetToBag({e})
\* the queue without one copy of e
Remove(q, e) == q (-) SetToBag({e})
\* prque.Empty
Empty(q) == BagToSet(q) = {}
\* the entries prque.Pop may return: those of the greatest priority
Heads(q) == {e \in BagToSet(q) : \A f \in BagToSet(q) : f.prio <= e.prio}

\* len over every queue of the store
Stored == LET RECURSIVE Sum(_)
              Sum(S) == IF S = {} THEN 0
                        ELSE LET s == CHOOSE x \in S : TRUE
                             IN  BagCardinality(backlogs[s]) + Sum(S \ {s})
          IN  Sum(DOMAIN backlogs)

\* c.backlogs[src], a new queue when there is none
QueueOf(src) == IF src \in DOMAIN backlogs THEN backlogs[src] ELSE EmptyBag

\* c.backlogs[src] = q
Assign(src, q) == [a \in DOMAIN backlogs \cup {src} |-> IF a = src THEN q ELSE backlogs[a]]

\* delete(c.backlogs, src)
Delete(src) == [a \in DOMAIN backlogs \ {src} |-> backlogs[a]]

(* ------------------------------- history ------------------------------ *)
\* the later of two views
Later(v, w) == IF Cmp(v, w) < 0 THEN w ELSE v

\* the range loop leaves sender cur: what was posted to it now lies in an earlier pass
Fold ==
    /\ hiRC' = IF track /\ cur \in Remote
               THEN [hiRC EXCEPT ![cur] = Later(@, passRC)] ELSE hiRC
    /\ hiOther' = IF track /\ cur \in Remote
                  THEN [hiOther EXCEPT ![cur] = Later(@, passOther)] ELSE hiOther
    /\ passRC' = NilView
    /\ passOther' = NilView
    /\ UNCHANGED <<track, q0, pops>>

(* --------------------------------- Init ------------------------------- *)
InitCore ==
    /\ curView = View(1, 0)
    /\ state = StateAcceptRequest
    /\ valSet = Addrs
    /\ backlogs = << >>
    /\ mu = "free"
    /\ pc = "idle"
    /\ todo = {}
    /\ cur = NoAddr
    /\ isFuture = FALSE
    /\ m = NoMsg
    /\ err = nil
    /\ storeAt = "none"
    /\ hiRC = [a \in Remote |-> NilView]
    /\ hiOther = [a \in Remote |-> NilView]
    /\ passRC = NilView
    /\ passOther = NilView
    /\ q0 = EmptyBag
    /\ pops = 0

\* one remote sender
Init == InitCore /\ peers = {"A"} /\ track = FALSE

\* two remote senders
InitPeers == InitCore /\ peers = {"A", "B"} /\ track = FALSE

\* the same program, keeping the history of what was posted
InitOrder == InitCore /\ peers = {"A"} /\ track = TRUE

(* ------------------------------- the stores --------------------------- *)
\* storeQBFTBacklog that does not take the lock (lines 102-103)
storeQBFTBacklog_noLock(src, code, view) ==
    /\ IF src = Self
       THEN /\ storeAt' = "self"
            /\ UNCHANGED backlogs
       ELSE /\ backlogs' = Assign(src, Push(QueueOf(src),
                                            Entry(code, view, toPriority(code, view))))
            /\ storeAt' = "end"
    /\ UNCHANGED <<engineVars, drainVars, histVars>>

\* storeQBFTBacklog(msg), msg.Source() = src, msg.Code() = code, msg.View() = view
storeQBFTBacklog(src, code, view) ==
    /\ IF src = Self
       THEN /\ storeAt' = "self"
            /\ UNCHANGED backlogs
       ELSE /\ mu = "free"
            /\ backlogs' = Assign(src, Push(QueueOf(src),
                                            Entry(code, view, toPriority(code, view))))
            /\ storeAt' = "end"
    /\ UNCHANGED <<engineVars, drainVars, histVars>>

\* storeBacklog without the test for the node's own address (lines 118-121)
storeBacklog_noSelfTest(src, code, view, decodes) ==
    /\ mu = "free"
    /\ backlogs' = Assign(src, IF decodes
                               THEN Push(QueueOf(src),
                                         Entry(code, view, toPriority(code, view)))
                               ELSE QueueOf(src))
    /\ storeAt' = IF decodes THEN "end" ELSE "nopush"
    /\ UNCHANGED <<engineVars, drainVars, histVars>>

\* storeBacklog that pushes the message also when Decode fails, with no view
storeBacklog_pushUndecoded(src, code, view, decodes) ==
    /\ IF src = Self
       THEN /\ storeAt' = "self"
            /\ UNCHANGED backlogs
       ELSE /\ mu = "free"
            /\ backlogs' = Assign(src, IF decodes
                                       THEN Push(QueueOf(src),
                                                 Entry(code, view, toPriority(code, view)))
                                       ELSE Push(QueueOf(src), Entry(code, NilView, 0)))
            /\ storeAt' = IF decodes THEN "end" ELSE "nopush"
    /\ UNCHANGED <<engineVars, drainVars, histVars>>

\* storeBacklog(msg, src), msg.Code = code; msg.Decode gives view when decodes
storeBacklog(src, code, view, decodes) ==
    /\ IF src = Self
       THEN /\ storeAt' = "self"
            /\ UNCHANGED backlogs
       ELSE /\ mu = "free"
            /\ backlogs' = Assign(src, IF decodes
                                       THEN Push(QueueOf(src),
                                                 Entry(code, view, toPriority(code, view)))
                                       ELSE QueueOf(src))
            /\ storeAt' = IF decodes THEN "end" ELSE "nopush"
    /\ UNCHANGED <<engineVars, drainVars, histVars>>

\* the ingestion path: a message that checkMessage calls future is stored
DeferQBFT ==
    \E src \in peers \cup {Self}, code \in Codes, view \in MsgViews :
        /\ checkMessage(code, view) = errFutureMessage
        /\ Stored < MaxBacklog
        /\ storeQBFTBacklog(src, code, view)

DeferLegacy ==
    \E src \in peers \cup {Self}, code \in Codes, view \in MsgViews, decodes \in BOOLEAN :
        /\ checkMessage(code, view) = errFutureMessage
        /\ Stored < MaxBacklog
        /\ storeBacklog(src, code, view, decodes)

\* the ingestion path of the remote senders alone, with payloads that decode
DeferPeersQBFT ==
    \E src \in peers, code \in Codes, view \in MsgViews :
        /\ checkMessage(code, view) = errFutureMessage
        /\ Stored < MaxBacklog
        /\ storeQBFTBacklog(src, code, view)

DeferPeersLegacy ==
    \E src \in peers, code \in Codes, view \in MsgViews :
        /\ checkMessage(code, view) = errFutureMessage
        /\ Stored < MaxBacklog
        /\ storeBacklog(src, code, view, TRUE)

(* ------------------------------- the engine --------------------------- *)
\* the engine runs processBacklog on its own thread: it moves between passes only
AdvanceState ==
    /\ pc = "idle"
    /\ state # StateCommitted
    /\ state' = IF state = StateAcceptRequest THEN StatePreprepared
                ELSE IF state = StatePreprepared THEN StatePrepared
                ELSE StateCommitted
    /\ UNCHANGED <<curView, valSet, peers, backlogs, drainVars, storeAt, histVars>>

NewRound ==
    /\ pc = "idle"
    /\ curView.round < MaxRound
    /\ curView' = View(curView.seq, curView.round + 1)
    /\ state' = StateAcceptRequest
    /\ UNCHANGED <<valSet, peers, backlogs, drainVars, storeAt, histVars>>

NewSequence ==
    /\ pc = "idle"
    /\ curView.seq < MaxSeq
    /\ curView' = View(curView.seq + 1, 0)
    /\ state' = StateAcceptRequest
    /\ UNCHANGED <<valSet, peers, backlogs, drainVars, storeAt, histVars>>

RemoveValidator ==
    /\ pc = "idle"
    /\ \E a \in valSet \cap peers : valSet' = valSet \ {a}
    /\ UNCHANGED <<curView, state, peers, backlogs, drainVars, storeAt, histVars>>

(* ----------------------------- processBacklog ------------------------- *)
\* processBacklog that never takes the lock
Begin_noLock ==
    /\ pc = "idle"
    /\ pc' = "range"
    /\ todo' = DOMAIN backlogs
    /\ UNCHANGED <<engineVars, backlogs, mu, cur, isFuture, m, err, storeAt, histVars>>

\* lines 158-161: Lock, and the range loop starts over the keys of the map
Begin ==
    /\ pc = "idle"
    /\ mu = "free"
    /\ mu' = "drain"
    /\ pc' = "range"
    /\ todo' = DOMAIN backlogs
    /\ UNCHANGED <<engineVars, backlogs, cur, isFuture, m, err, storeAt, histVars>>

\* a lookup that finds every address
IsValidator_always(a) == TRUE

\* c.valSet.GetByAddress(srcAddress) finds a validator
IsValidator(a) == a \in valSet

\* lines 161-172: the next key; a sender that is no validator loses its queue
NextSender ==
    /\ pc = "range"
    /\ \E s \in todo :
        /\ todo' = todo \ {s}
        /\ cur' = s
        /\ isFuture' = FALSE
        /\ m' = NoMsg
        /\ err' = nil
        /\ IF IsValidator(s)
           THEN pc' = "loop" /\ UNCHANGED backlogs
           ELSE pc' = "range" /\ backlogs' = Delete(s)
        /\ q0' = backlogs[s]
    /\ pops' = 0
    /\ UNCHANGED <<engineVars, mu, storeAt, postedVars>>

\* lines 177-220: Pop, the view of the message, checkMessage
PopCheck ==
    /\ pc = "loop"
    /\ ~(Empty(backlogs[cur]) \/ isFuture)
    /\ \E e \in Heads(backlogs[cur]) :
        /\ backlogs' = [backlogs EXCEPT ![cur] = Remove(@, e)]
        /\ m' = e
        /\ err' = checkMessage(e.code, e.view)
    /\ pc' = "act"
    /\ pops' = pops + 1
    /\ UNCHANGED <<engineVars, mu, todo, cur, isFuture, storeAt, postedVars, q0>>

\* line 177: the loop over one queue ends
LoopExit ==
    /\ pc = "loop"
    /\ Empty(backlogs[cur]) \/ isFuture
    /\ pc' = "range"
    /\ Fold
    /\ UNCHANGED <<engineVars, backlogs, mu, todo, cur, isFuture, m, err, storeAt>>

\* a push back that neither sets isFuture nor breaks: the loop pops again
PushBack_noBreak ==
    /\ pc = "act"
    /\ err = errFutureMessage
    /\ backlogs' = [backlogs EXCEPT ![cur] = Push(@, m)]
    /\ pc' = "loop"
    /\ UNCHANGED <<engineVars, mu, todo, cur, isFuture, m, err, storeAt, histVars>>

\* a push back that does not keep the priority Pop returned
PushBack_newPrio ==
    /\ pc = "act"
    /\ err = errFutureMessage
    /\ backlogs' = [backlogs EXCEPT ![cur] = Push(@, [m EXCEPT !.prio = 0])]
    /\ isFuture' = TRUE
    /\ pc' = "range"
    /\ Fold
    /\ UNCHANGED <<engineVars, mu, todo, cur, m, err, storeAt>>

\* a push back that ends the range loop too: no further sender is visited
PushBack_endPass ==
    /\ pc = "act"
    /\ err = errFutureMessage
    /\ backlogs' = [backlogs EXCEPT ![cur] = Push(@, m)]
    /\ isFuture' = TRUE
    /\ pc' = "range"
    /\ todo' = {}
    /\ Fold
    /\ UNCHANGED <<engineVars, mu, cur, m, err, storeAt>>

\* lines 221-227: a future message goes back and ends the loop
PushBack ==
    /\ pc = "act"
    /\ err = errFutureMessage
    /\ backlogs' = [backlogs EXCEPT ![cur] = Push(@, m)]
    /\ isFuture' = TRUE
    /\ pc' = "range"
    /\ Fold
    /\ UNCHANGED <<engineVars, mu, todo, cur, m, err, storeAt>>

\* a skip that leaves the loop (break) where the code goes on (continue)
Skip_break ==
    /\ pc = "act"
    /\ err \in {errOldMessage, errInvalidMessage}
    /\ pc' = "range"
    /\ Fold
    /\ UNCHANGED <<engineVars, backlogs, mu, todo, cur, isFuture, m, err, storeAt>>

\* lines 228-229: an old or invalid message is skipped
Skip ==
    /\ pc = "act"
    /\ err \in {errOldMessage, errInvalidMessage}
    /\ pc' = "loop"
    /\ UNCHANGED <<engineVars, backlogs, mu, todo, cur, isFuture, m, err, storeAt, histVars>>

\* a post that puts the message back into the queue as well
Post_requeue ==
    /\ pc = "act"
    /\ err = nil
    /\ pc' = "loop"
    /\ backlogs' = [backlogs EXCEPT ![cur] = Push(@, m)]
    /\ UNCHANGED <<engineVars, mu, todo, cur, isFuture, m, err, storeAt, histVars>>

\* lines 231-234: go c.sendEvent(event)
Post ==
    /\ pc = "act"
    /\ err = nil
    /\ pc' = "loop"
    /\ passRC' = IF track /\ m.code = msgRoundChange THEN Later(passRC, m.view) ELSE passRC
    /\ passOther' = IF track /\ m.code # msgRoundChange THEN Later(passOther, m.view)
                    ELSE passOther
    /\ UNCHANGED <<engineVars, backlogs, mu, todo, cur, isFuture, m, err, storeAt,
                   track, hiRC, hiOther, q0, pops>>

\* processBacklog that returns with the lock held
End_noUnlock ==
    /\ pc = "range"
    /\ todo = {}
    /\ pc' = "idle"
    /\ cur' = NoAddr
    /\ isFuture' = FALSE
    /\ m' = NoMsg
    /\ err' = nil
    /\ q0' = EmptyBag
    /\ pops' = 0
    /\ UNCHANGED <<engineVars, backlogs, mu, todo, storeAt, postedVars>>

\* line 237: the range loop is over, the deferred Unlock runs
End ==
    /\ pc = "range"
    /\ todo = {}
    /\ mu' = "free"
    /\ pc' = "idle"
    /\ cur' = NoAddr
    /\ isFuture' = FALSE
    /\ m' = NoMsg
    /\ err' = nil
    /\ q0' = EmptyBag
    /\ pops' = 0
    /\ UNCHANGED <<engineVars, backlogs, todo, storeAt, postedVars>>

processBacklog == Begin \/ NextSender \/ PopCheck \/ LoopExit \/ PushBack \/ Skip \/ Post \/ End

Next ==
    \/ DeferQBFT
    \/ DeferLegacy
    \/ AdvanceState
    \/ NewRound
    \/ NewSequence
    \/ RemoveValidator
    \/ processBacklog

Spec == Init /\ [][Next]_vars

SpecOrder == InitOrder /\ [][Next]_vars

NextPeers ==
    \/ DeferPeersQBFT
    \/ DeferPeersLegacy
    \/ AdvanceState
    \/ NewRound
    \/ NewSequence
    \/ RemoveValidator
    \/ processBacklog

SpecPeers == InitPeers /\ [][NextPeers]_vars

\* processBacklog runs in one goroutine from Lock to Unlock with no blocking call
\* in between, so a step of it that stays possible is taken
SpecLive == Init /\ [][Next]_vars /\ WF_vars(processBacklog)

(* ======================= properties of the backlog ==================== *)
\* the views in their total order, written out field by field
Before(v, w) == v.seq < w.seq \/ (v.seq = w.seq /\ v.round < w.round)

\* processBacklog has just handed m, from sender cur, to sendEvent
Posted == pc = "loop" /\ err = nil /\ m # NoMsg

\* processBacklog has just pushed the future message m back and left the queue of cur
Stopped == pc = "range" /\ isFuture

InRange(e) ==
    /\ e.view.round < RoundLimit
    /\ e.view.seq * SeqWeight + e.view.round * RoundWeight + msgPriority(e.code) < 2^24

StopLeavesNoAdmissible ==
    Stopped => \A e \in BagToSet(Remove(backlogs[cur], m)) :
                   checkMessage(e.code, e.view) # nil

\* C4, as stated: when the pass over the queue of a validator is over, no entry
\* left in that queue would be admitted under the current view and state.
AdmissibleIsReplayed ==
    (pc = "range" /\ cur \in DOMAIN backlogs /\ cur \in valSet)
    => \A e \in BagToSet(backlogs[cur]) : checkMessage(e.code, e.view) # nil

\* the classification of section 4.1 for Preprepare, Prepare and Commit
ClassifyOther(code, view) ==
    IF view.seq = Missing \/ view.round = Missing THEN errInvalidMessage
    ELSE IF Before(curView, view) THEN errFutureMessage
    ELSE IF Before(view, curView) THEN errOldMessage
    ELSE CASE state = StateAcceptRequest ->
                  IF code = msgPreprepare THEN nil ELSE errFutureMessage
           [] state = StatePreprepared ->
                  IF code = msgPrepare THEN nil
                  ELSE IF code = msgPreprepare THEN errInvalidMessage
                  ELSE errFutureMessage
           [] state = StatePrepared ->
                  IF code = msgCommit THEN nil ELSE errInvalidMessage
           [] state = StateCommitted -> errInvalidMessage

\* C5: checkMessage gives Preprepare, Prepare and Commit the classification of
\* the table (future, old, then by state), and calls a view with a missing
\* sequence or round invalid for every kind; so does the check of a drain pass.
CheckOtherKinds ==
    /\ \A code \in Codes \ {msgRoundChange}, view \in AnyViews :
           checkMessage(code, view) = ClassifyOther(code, view)
    /\ \A code \in Codes, view \in AnyViews :
           (view.seq = Missing \/ view.round = Missing)
           => checkMessage(code, view) = errInvalidMessage
    /\ (pc = "act" /\ m.code # msgRoundChange) => err = ClassifyOther(m.code, m.view)

\* C5 witness: a drain pass has classified a Prepare of the current view as
\* future in StateAcceptRequest.
CheckOtherKindsWitness ==
    /\ pc = "act"
    /\ m.code = msgPrepare
    /\ m.view = curView
    /\ state = StateAcceptRequest
    /\ err = errFutureMessage

NoSelfDelivery ==
    /\ [](Self \notin DOMAIN backlogs /\ cur # Self)
    /\ [][(storeAt' = "self" /\ UNCHANGED <<engineVars, drainVars>>)
          => UNCHANGED backlogs]_vars

\* C7 witness: a store call for the node's own address has returned while
\* messages of a remote sender are queued.
NoSelfDeliveryWitness ==
    /\ storeAt = "self"
    /\ Stored > 0
    /\ Self \notin DOMAIN backlogs

\* C8: when a pass ends, no sender outside the validator set has a key in the
\* store, and the pass posts no message of such a sender.
PurgeRemoved ==
    [][/\ (pc = "range" /\ pc' = "idle") => \A a \in DOMAIN backlogs' : a \in valSet'
       /\ (pc = "act" /\ err = nil) => cur \in valSet]_vars

\* C8 witness: the pass has just deleted the queue of a sender that is no
\* validator.
PurgeRemovedWitness ==
    /\ pc = "range"
    /\ cur \in Remote
    /\ cur \notin valSet
    /\ cur \notin DOMAIN backlogs

\* C9: a message whose view is before the current view is old or invalid for
\* checkMessage, never future and never admitted; a drain pass skips such an
\* entry: it neither posts it nor pushes it back.
StaleMonotone ==
    /\ \A code \in Codes, view \in MsgViews :
           Before(view, curView)
           => checkMessage(code, view) \in {errOldMessage, errInvalidMessage}
    /\ (pc = "act" /\ Before(m.view, curView))
       => err \in {errOldMessage, errInvalidMessage}
    /\ (Posted \/ Stopped) => ~Before(m.view, curView)

\* C9 witness: a drain pass has skipped a queued round change whose view the
\* engine has passed.
StaleMonotoneWitness ==
    /\ pc = "loop"
    /\ m.code = msgRoundChange
    /\ Before(m.view, curView)
    /\ err = errOldMessage

DrainTerminates ==
    /\ [](pops <= BagCardinality(q0))
    /\ (pc \in {"loop", "act"}) ~> (pc = "range")

\* C11 witness: the loop stopped at a future message that was the last of several
\* entries, after as many pops as the queue held.
DrainTerminatesWitness ==
    /\ Stopped
    /\ pops = BagCardinality(q0)
    /\ pops > 1

\* the order the priority key is meant to give to messages other than round
\* changes: sequence, then round, then the rank of the kind
KeyBefore(e, f) ==
    \/ e.view.seq < f.view.seq
    \/ e.view.seq = f.view.seq /\ e.view.round < f.view.round
    \/ e.view = f.view /\ msgPriority(e.code) < msgPriority(f.code)

\* C12, as stated: of two messages other than round changes the one that comes
\* first by sequence, then round, then rank of kind has the greater priority, so
\* that Pop never returns one while the other, earlier in that order, is queued.
PriorityKeyOrder ==
    (pc = "act" /\ m.code # msgRoundChange)
    => \A f \in BagToSet(backlogs[cur]) :
           f.code # msgRoundChange => ~KeyBefore(f, m)

\* processBacklog has just skipped the old or invalid message m of sender cur
Skipped == pc = "loop" /\ err \in {errOldMessage, errInvalidMessage} /\ m # NoMsg

\* C14: a popped entry that checkMessage calls old or invalid stays out of the
\* queue and is not posted, the loop goes on, and its next step pops the head of
\* what is left.
SkipContinues ==
    [][/\ (pc = "act" /\ err \in {errOldMessage, errInvalidMessage} /\ pc' # pc)
          => /\ Skipped'
             /\ ~Posted'
             /\ ~isFuture'
             /\ m' = m
             /\ backlogs' = backlogs
             /\ CopiesIn(m, backlogs'[cur]) < CopiesIn(m, q0)
       /\ (Skipped /\ ~Empty(backlogs[cur]) /\ pc' # pc)
          => /\ pc' = "act"
             /\ m' \in Heads(backlogs[cur])
             /\ backlogs'[cur] = Remove(backlogs[cur], m')]_vars

\* C14 witness: an invalid message has just been skipped and the queue of its
\* sender holds more.
SkipContinuesWitness ==
    /\ Skipped
    /\ err = errInvalidMessage
    /\ ~Empty(backlogs[cur])

\* C15: when the loop over a queue stops at the future message m, m is back in
\* the queue with the priority it had, every entry behind it is in the queue as
\* before, and the queue is what the loop found less the entries popped before m.
StopFrame ==
    Stopped
    => /\ backlogs[cur] \sqsubseteq q0
       /\ CopiesIn(m, backlogs[cur]) = CopiesIn(m, q0)
       /\ CopiesIn(m, backlogs[cur]) > 0
       /\ \A e \in BagToSet(q0) :
              e.prio < m.prio => CopiesIn(e, backlogs[cur]) = CopiesIn(e, q0)
       /\ BagCardinality(q0) - BagCardinality(backlogs[cur]) = pops - 1

\* C15 witness: the loop stopped at a future message with another entry behind it.
StopFrameWitness ==
    /\ Stopped
    /\ \E e \in BagToSet(backlogs[cur]) : e.prio < m.prio

\* C16: a storeBacklog call whose Decode fails leaves the entries of every queue
\* as they were; every queued entry has a view, and so has every message posted;
\* a message without a view is invalid to checkMessage, whatever its code.
UndecodableNeverQueued ==
    /\ [](/\ \A a \in DOMAIN backlogs : \A e \in BagToSet(backlogs[a]) :
               e.view \in MsgViews
          /\ Posted => m.view \in MsgViews
          /\ \A code \in Codes : checkMessage(code, NilView) = errInvalidMessage
          /\ (pc = "act" /\ m.view \notin MsgViews) => err = errInvalidMessage)
    /\ [][(storeAt' = "nopush" /\ UNCHANGED <<engineVars, drainVars>>)
          => \A a \in Remote : QueueOf(a)' = QueueOf(a)]_vars

\* C16 witness: a storeBacklog call whose Decode failed has returned and the
\* queue of the sender holds what it held.
UndecodableNeverQueuedWitness ==
    /\ storeAt = "nopush"
    /\ \E a \in DOMAIN backlogs : ~Empty(backlogs[a])

\* C17, as stated: a sender gets a key in the store only in a step that puts a
\* message into its queue, and a store call that pushes nothing (own address, or
\* a Decode that fails) leaves the keys of the store as they were.
LazyQueueCreation ==
    [][/\ \A a \in Addrs :
              (a \notin DOMAIN backlogs /\ a \in DOMAIN backlogs')
              => ~Empty(backlogs'[a])
       /\ (storeAt' \in {"self", "nopush"} /\ UNCHANGED <<engineVars, drainVars>>)
          => DOMAIN backlogs' = DOMAIN backlogs]_vars

\* C18: the steps of the loop over one sender's queue leave the set of senders
\* still to visit and every other sender's queue as they were, also the push back
\* of a future message; the pass ends only when no sender is left to visit, and
\* the next sender's loop starts on that sender's own queue; no step of the
\* program changes the queues of two senders.
SenderIndependence ==
    [][/\ (pc \in {"loop", "act"})
          => /\ todo' = todo
             /\ cur' = cur
             /\ \A b \in Remote \ {cur} :
                    /\ QueueOf(b)' = QueueOf(b)
                    /\ (b \in DOMAIN backlogs') = (b \in DOMAIN backlogs)
       /\ (pc = "range" /\ pc' = "idle") => todo = {}
       /\ (pc = "range" /\ todo' # todo)
          => /\ cur' \in todo
             /\ todo' = todo \ {cur'}
             /\ ~isFuture'
             /\ q0' = backlogs[cur']
             /\ pc' = IF cur' \in valSet THEN "loop" ELSE "range"
             /\ \A b \in Remote \ {cur'} : QueueOf(b)' = QueueOf(b)
       /\ \A a \in Remote, b \in Remote :
              (a # b /\ QueueOf(a)' # QueueOf(a)) => QueueOf(b)' = QueueOf(b)]_vars

\* C18 witness: in one pass a message of one sender is admitted after the loop
\* over another sender's queue stopped at a future message.
SenderIndependenceWitness ==
    /\ pc = "act"
    /\ err = nil
    /\ \E a \in DOMAIN backlogs \ (todo \cup {cur}) :
           /\ a \in valSet
           /\ \E e \in Heads(backlogs[a]) :
                  checkMessage(e.code, e.view) = errFutureMessage

\* the entries of every queue of the store, counted
RECURSIVE Total(_)
Total(S) == IF S = {} THEN 0
            ELSE LET a == CHOOSE x \in S : TRUE
                 IN  BagCardinality(QueueOf(a)) + Total(S \ {a})

\* C19: during the loop over a sender's queue the queue is a part of what the loop
\* found, short of one entry for each Pop (the pushed back one excepted), so every
\* message posted, skipped or pushed back is one popped entry and none comes
\* twice; an entry leaves a queue only by a Pop of the pass or with the queue of
\* a sender that is no validator, and a post or a skip does not put it back.
ReplayAtMostOnce ==
    /\ []((pc \in {"loop", "act"} \/ Stopped)
          => /\ backlogs[cur] \sqsubseteq q0
             /\ BagCardinality(q0) - BagCardinality(backlogs[cur])
                    = IF Stopped THEN pops - 1 ELSE pops)
    /\ [][/\ \A a \in Remote : \A e \in BagToSet(QueueOf(a)) :
                 CopiesIn(e, QueueOf(a)') < CopiesIn(e, QueueOf(a))
                 => \/ /\ pc = "loop" /\ pc' = "act" /\ cur = a /\ m' = e
                       /\ CopiesIn(e, QueueOf(a)') = CopiesIn(e, QueueOf(a)) - 1
                       /\ Total(Remote)' = Total(Remote) - 1
                    \/ /\ pc = "range" /\ cur' = a /\ a \notin valSet
                       /\ a \notin DOMAIN backlogs'
          /\ (pc = "act" /\ pc' = "loop") => backlogs' = backlogs
          /\ (pc = "act" /\ pc' = "range")
             => /\ err = errFutureMessage
                /\ backlogs' = [backlogs EXCEPT ![cur] = Push(@, m)]]_vars

\* C19 witness: a message has been posted, and it was the second entry popped
\* from its sender's queue in this pass.
ReplayAtMostOnceWitness ==
    /\ Posted
    /\ pops = 2
    /\ Empty(backlogs[cur])

====
